---- MODULE Spec2Model ----
(***************************************************************************)
(* API-Pizzaria: the account, token and order handlers of auth_routes.py   *)
(* and order_routes.py over the tables of models.py.                       *)
(*                                                                         *)
(* Money is counted in whole cents.  The columns no handler ever reads     *)
(* (nome, ativo, sabor, tamanho) are left out of the rows.                 *)
(* Time is counted in whole minutes.                                       *)
(***************************************************************************)
EXTENDS Integers, Sequences, FiniteSets

\* ---------------------------------------------------------------- bounds
MaxUsuarios == 2
MaxPedidos == 2
MaxItens == 2
MaxTiques == 3
MaxTokens == 3
MaxReqs == 2

\* ------------------------------------------------------ program constants
\* ACCESS_TOKEN_EXPIRE_MINUTES = int(os.getenv(...)); the login docstring
\* gives the deployed value, 30 minutes.
ACCESS_TOKEN_EXPIRE_MINUTES == 30

\* timedelta(days=7), in minutes
DuracaoRefresh == 7 * 24 * 60

\* ------------------------------------------------------- request inputs
Emails == {"a@pizza", "b@pizza"}
Senhas == {"s1"}
SenhasDigitadas == Senhas \cup {"errada"}
Quantidades == {1, 2}
Precos == {500}

\* ------------------------------------------------------------ variables
VARIABLES
    usuarios,   \* table usuarios: sequence of rows, row id = position
    pedidos,    \* table pedidos: sequence of rows, row id = position
    itens,      \* table itens_pedido: set of rows with their id
    resp,       \* the response of the last request
    now,        \* the clock, in minutes
    tiques,     \* how many times the clock has advanced
    carteira,   \* the tokens handed out so far, by response field
    cred,       \* the bearer token presented with the last request
    reqs,       \* per worker process, the request it is in the middle of
    trava       \* the holder of the database write lock, 0 when free

vars == <<usuarios, pedidos, itens, resp, now, tiques, carteira, cred, reqs, trava>>
db == <<usuarios, pedidos, itens>>
relogio == <<now, tiques, carteira, cred>>
conc == <<reqs, trava>>

\* Python's None, as a row no table holds (ids start at 1).
Nulo == [id |-> 0]

\* A worker between requests.
Ocioso == [pc |-> "ocioso"]

\* No Authorization header was looked at.
SemCredencial == [campo |-> "nenhuma"]

\* How far the clock may jump in one step: a minute, to the last minute of an
\* access token, and from there to the last minute of a refresh token.
Saltos == {1, ACCESS_TOKEN_EXPIRE_MINUTES - 1,
           DuracaoRefresh - ACCESS_TOKEN_EXPIRE_MINUTES}

\* The largest of a set of naturals, 0 for the empty set.
Maior(S) == IF S = {} THEN 0 ELSE CHOOSE m \in S : \A x \in S : x <= m

RECURSIVE Soma(_)
\* sum(...) over a collection of item rows of preco_unitario * quantidade.
Soma(S) ==
    IF S = {} THEN 0
    ELSE LET i == CHOOSE x \in S : TRUE
         IN i.preco_unitario * i.quantidade + Soma(S \ {i})

\* ------------------------------------------------------------ models.py
\* Usuario(nome, email, senha, ativo, admin)
Usuario(email, senha, admin) == [email |-> email, senha |-> senha, admin |-> admin]

\* Pedido(usuario, status="PENDENTE", preco=0)
Pedido(usuario) == [usuario |-> usuario, status |-> "PENDENTE", preco |-> 0]

\* ItemPedido(quantidade, sabor, tamanho, preco_unitario, pedido); the id is
\* the INTEGER PRIMARY KEY the table assigns on insert: one more than the
\* largest id present.
ItemPedido(id, quantidade, preco_unitario, pedido) ==
    [id |-> id, quantidade |-> quantidade, preco_unitario |-> preco_unitario,
     pedido |-> pedido]

\* relationship("ItemPedido"): the rows of its whose foreign key is the order.
itensDe(its, id_pedido) == {i \in its : i.pedido = id_pedido}

\* calcular_preco as running arithmetic on the loaded row: its preco plus the
\* newest item of the collection.
calcular_preco_incremental(p, p_itens) ==
    IF p_itens = {} THEN 0
    ELSE LET novo == CHOOSE i \in p_itens : \A x \in p_itens : x.id <= i.id
         IN p.preco + novo.preco_unitario * novo.quantidade

\* Pedido.calcular_preco: the new preco, from the loaded row p and its loaded
\* collection p.itens.
calcular_preco(p, p_itens) == Soma(p_itens)

\* session.query(Pedido).filter(Pedido.id == id).first(), with the id attached.
pedidoPorId(id) ==
    IF id \in DOMAIN pedidos
    THEN [id |-> id, usuario |-> pedidos[id].usuario,
          status |-> pedidos[id].status, preco |-> pedidos[id].preco]
    ELSE Nulo

\* session.query(ItemPedido).filter(ItemPedido.id == id).first()
itemPorId(id) ==
    IF \E i \in itens : i.id = id
    THEN CHOOSE i \in itens : i.id = id
    ELSE Nulo

\* session.query(Usuario).filter(Usuario.email == email).first(): the id of
\* the first row with that email, 0 when there is none.
usuarioPorEmail(email) ==
    IF \E u \in DOMAIN usuarios : usuarios[u].email = email
    THEN CHOOSE u \in DOMAIN usuarios :
            /\ usuarios[u].email = email
            /\ \A v \in DOMAIN usuarios : usuarios[v].email = email => u <= v
    ELSE 0

\* bcrypt_context.hash / bcrypt_context.verify
bcrypt_hash(senha) == <<"bcrypt", senha>>
bcrypt_verify(senha, hash) == hash = bcrypt_hash(senha)

\* ----------------------------------------------------------- responses
Resposta(rota, usuario, alvo, status, corpo) ==
    [rota |-> rota, usuario |-> usuario, alvo |-> alvo, status |-> status,
     corpo |-> corpo]

\* ------------------------------------------------------------------ init
\* The store after an administrator and a customer have registered, with no
\* order placed yet.
Init ==
    /\ usuarios = <<Usuario("a@pizza", bcrypt_hash("s1"), TRUE),
                    Usuario("b@pizza", bcrypt_hash("s1"), FALSE)>>
    /\ pedidos = <<>>
    /\ itens = {}
    /\ resp = Resposta("", 0, 0, "", 0)
    /\ now = 0
    /\ tiques = 0
    /\ carteira = {}
    /\ cred = SemCredencial
    /\ reqs = [w \in 1..MaxReqs |-> Ocioso]
    /\ trava = 0

\* -------------------------------------------------------- auth_routes.py
\* str(id_usuario) and the int(...) that reads it back
str(n) == [str |-> n]
int(t) == t.str

\* criar_token with every token given the default lifetime.
criar_token_duracaoPadrao(id_usuario, duracao_token) ==
    [sub |-> str(id_usuario), exp |-> now + ACCESS_TOKEN_EXPIRE_MINUTES]

\* criar_token(id_usuario, duracao_token): the claims the JWT is signed over.
criar_token(id_usuario, duracao_token) ==
    [sub |-> str(id_usuario), exp |-> now + duracao_token]

\* autenticar_usuario(email, senha, session): the user's id, 0 for False.
autenticar_usuario(email, senha) ==
    LET usuario == usuarioPorEmail(email) IN
    IF usuario = 0 THEN 0
    ELSE IF ~bcrypt_verify(senha, usuarios[usuario].senha) THEN 0
    ELSE usuario

\* A token in the client's hands: the response field it came in, the JWT, and
\* for whom and when it was issued.
Emitido(campo, jwt, para) == [campo |-> campo, jwt |-> jwt, para |-> para, emitido |-> now]

\* POST /auth/login
login(email, senha) ==
    LET usuario == autenticar_usuario(email, senha) IN
    /\ cred' = SemCredencial
    /\ IF usuario = 0
       THEN /\ resp' = Resposta("login", 0, 0, "InvalidCredentials", 0)
            /\ UNCHANGED carteira
       ELSE LET access_token == criar_token(usuario, ACCESS_TOKEN_EXPIRE_MINUTES)
                refresh_token == criar_token(usuario, DuracaoRefresh)
                novos == {Emitido("access_token", access_token, usuario),
                          Emitido("refresh_token", refresh_token, usuario)}
            IN /\ Cardinality(carteira \cup novos) <= MaxTokens
               /\ carteira' = carteira \cup novos
               /\ resp' = Resposta("login", 0, usuario, "ok",
                                   [access_token |-> access_token,
                                    refresh_token |-> refresh_token])
    /\ UNCHANGED <<db, now, tiques, conc>>

\* POST /auth/login-form
login_form(username, password) ==
    LET usuario == autenticar_usuario(username, password) IN
    /\ cred' = SemCredencial
    /\ IF usuario = 0
       THEN /\ resp' = Resposta("login-form", 0, 0, "InvalidCredentials", 0)
            /\ UNCHANGED carteira
       ELSE LET access_token == criar_token(usuario, ACCESS_TOKEN_EXPIRE_MINUTES)
                novos == {Emitido("access_token", access_token, usuario)}
            IN /\ Cardinality(carteira \cup novos) <= MaxTokens
               /\ carteira' = carteira \cup novos
               /\ resp' = Resposta("login-form", 0, usuario, "ok",
                                   [access_token |-> access_token])
    /\ UNCHANGED <<db, now, tiques, conc>>

\* verificar_token(token): the user the token stands for, or why it is refused.
\* Expired once the clock has reached the embedded expiration.
verificar_token(jwt) ==
    IF now >= jwt.exp THEN [erro |-> "Expired", usuario |-> 0]
    ELSE IF int(jwt.sub) \notin DOMAIN usuarios
    THEN [erro |-> "InvalidCredential", usuario |-> 0]
    ELSE [erro |-> "", usuario |-> int(jwt.sub)]

\* GET /auth/refresh with bearer token k
use_refresh_token(k) ==
    LET v == verificar_token(k.jwt) IN
    /\ cred' = k
    /\ IF v.erro # ""
       THEN /\ resp' = Resposta("refresh", 0, 0, v.erro, 0)
            /\ UNCHANGED carteira
       ELSE LET access_token == criar_token(v.usuario, ACCESS_TOKEN_EXPIRE_MINUTES)
                novos == {Emitido("access_token", access_token, v.usuario)}
            IN /\ Cardinality(carteira \cup novos) <= MaxTokens
               /\ carteira' = carteira \cup novos
               /\ resp' = Resposta("refresh", v.usuario, 0, "ok",
                                   [access_token |-> access_token])
    /\ UNCHANGED <<db, now, tiques, conc>>

\* APIRouter(prefix="/pedidos", dependencies=[Depends(verificar_token)]): an
\* order route called with bearer token k either is refused with the token's
\* error (u = 0, the handler does not run) or runs its handler for the user
\* u the token stands for.
comToken(k, rota, u) ==
    LET v == verificar_token(k.jwt) IN
    /\ cred' = k
    /\ IF v.erro # ""
       THEN u = 0 /\ resp' = Resposta(rota, 0, 0, v.erro, 0) /\ UNCHANGED db
       ELSE u = v.usuario
    /\ UNCHANGED <<now, tiques, carteira, conc>>

\* datetime.now(timezone.utc) moves on.
Tique(d) ==
    /\ tiques < MaxTiques
    /\ now' = now + d
    /\ tiques' = tiques + 1
    /\ UNCHANGED <<db, resp, carteira, cred, conc>>

\* ------------------------------------------------------- order_routes.py
\* The same guard with the administrator's pass forgotten.
semAutorizacao_semAdmin(u, pedido) == u # pedido.usuario

\* The guard each order handler repeats:
\* not usuario.admin and usuario.id != pedido.usuario
semAutorizacao(u, pedido) == ~usuarios[u].admin /\ u # pedido.usuario

\* GET /pedidos/: the service check, open to any authenticated user.
pedidos_raiz(u) ==
    /\ resp' = Resposta("pedidos", u, 0, "ok", "Você acessou a rota de pedidos")
    /\ UNCHANGED db

\* POST /pedidos/criar-pedido by authenticated user u with body usuario = dono.
criar_pedido(u, dono) ==
    /\ Len(pedidos) < MaxPedidos
    /\ pedidos' = Append(pedidos, Pedido(dono))
    /\ resp' = Resposta("criar-pedido", u, Len(pedidos) + 1, "ok", Len(pedidos) + 1)
    /\ UNCHANGED <<usuarios, itens>>

\* cancelar_pedido with a transition guard: only a pending order is cancelled,
\* any other keeps its status.
cancelar_pedido_soPendente(u, id_pedido) ==
    LET pedido == pedidoPorId(id_pedido) IN
    IF pedido = Nulo
    THEN /\ resp' = Resposta("cancelar", u, id_pedido, "NotFound", 0)
         /\ UNCHANGED db
    ELSE IF semAutorizacao(u, pedido)
    THEN /\ resp' = Resposta("cancelar", u, id_pedido, "Unauthorized", 0)
         /\ UNCHANGED db
    ELSE LET novo == IF pedido.status = "PENDENTE" THEN "CANCELADO"
                     ELSE pedido.status
         IN /\ pedidos' = [pedidos EXCEPT ![id_pedido].status = novo]
            /\ resp' = Resposta("cancelar", u, id_pedido, "ok",
                                [pedido EXCEPT !.status = novo])
            /\ UNCHANGED <<usuarios, itens>>

\* cancelar_pedido that also deletes the cancelled order's items.
cancelar_pedido_apagaItens(u, id_pedido) ==
    LET pedido == pedidoPorId(id_pedido) IN
    IF pedido = Nulo
    THEN /\ resp' = Resposta("cancelar", u, id_pedido, "NotFound", 0)
         /\ UNCHANGED db
    ELSE IF semAutorizacao(u, pedido)
    THEN /\ resp' = Resposta("cancelar", u, id_pedido, "Unauthorized", 0)
         /\ UNCHANGED db
    ELSE /\ pedidos' = [pedidos EXCEPT ![id_pedido].status = "CANCELADO"]
         /\ itens' = itens \ itensDe(itens, id_pedido)
         /\ resp' = Resposta("cancelar", u, id_pedido, "ok",
                             [pedido EXCEPT !.status = "CANCELADO"])
         /\ UNCHANGED usuarios

\* POST /pedidos/cancelar/{id_pedido}
cancelar_pedido(u, id_pedido) ==
    LET pedido == pedidoPorId(id_pedido) IN
    IF pedido = Nulo
    THEN /\ resp' = Resposta("cancelar", u, id_pedido, "NotFound", 0)
         /\ UNCHANGED db
    ELSE IF semAutorizacao(u, pedido)
    THEN /\ resp' = Resposta("cancelar", u, id_pedido, "Unauthorized", 0)
         /\ UNCHANGED db
    ELSE /\ pedidos' = [pedidos EXCEPT ![id_pedido].status = "CANCELADO"]
         /\ resp' = Resposta("cancelar", u, id_pedido, "ok",
                             [pedido EXCEPT !.status = "CANCELADO"])
         /\ UNCHANGED <<usuarios, itens>>

\* GET /pedidos/listar
listar_pedidos(u) ==
    /\ IF ~usuarios[u].admin
       THEN resp' = Resposta("listar", u, 0, "Unauthorized", {})
       ELSE resp' = Resposta("listar", u, 0, "ok",
                             {pedidoPorId(i) : i \in DOMAIN pedidos})
    /\ UNCHANGED db

\* POST /pedidos/adicionar-item/{id_pedido}.  session.add(item_pedido) is
\* flushed by the load of pedido.itens inside calcular_preco, so the new row
\* is among the rows summed.
adicionar_item_pedido(u, id_pedido, quantidade, preco_unitario) ==
    LET pedido == pedidoPorId(id_pedido) IN
    IF pedido = Nulo
    THEN /\ resp' = Resposta("adicionar-item", u, id_pedido, "NotFound", 0)
         /\ UNCHANGED db
    ELSE IF semAutorizacao(u, pedido)
    THEN /\ resp' = Resposta("adicionar-item", u, id_pedido, "Unauthorized", 0)
         /\ UNCHANGED db
    ELSE LET item_pedido == ItemPedido(Maior({i.id : i \in itens}) + 1,
                                       quantidade, preco_unitario, id_pedido)
             depois == itens \cup {item_pedido}
             preco == calcular_preco(pedido, itensDe(depois, id_pedido))
         IN /\ Cardinality(itens) < MaxItens
            /\ itens' = depois
            /\ pedidos' = [pedidos EXCEPT ![id_pedido].preco = preco]
            /\ resp' = Resposta("adicionar-item", u, id_pedido, "ok",
                                [item_id |-> item_pedido.id, preco_pedido |-> preco])
            /\ UNCHANGED usuarios

\* POST /pedidos/remover-item/{id_item_pedido}.  Both queries filter on
\* id_item_pedido: pedido is the order whose id is the item's id.  With no
\* such order pedido is None and pedido.usuario / pedido.calcular_preco()
\* raise; the session is closed without a commit, so nothing is written.
remover_item_pedido(u, id_item_pedido) ==
    LET item_pedido == itemPorId(id_item_pedido)
        pedido == pedidoPorId(id_item_pedido)
    IN
    IF item_pedido = Nulo
    THEN /\ resp' = Resposta("remover-item", u, id_item_pedido, "NotFound", 0)
         /\ UNCHANGED db
    ELSE IF pedido = Nulo
    THEN /\ resp' = Resposta("remover-item", u, id_item_pedido, "InternalError", 0)
         /\ UNCHANGED db
    ELSE IF semAutorizacao(u, pedido)
    THEN /\ resp' = Resposta("remover-item", u, id_item_pedido, "Unauthorized", 0)
         /\ UNCHANGED db
    ELSE LET depois == itens \ {item_pedido}
             p_itens == itensDe(depois, pedido.id)
             preco == calcular_preco(pedido, p_itens)
         IN /\ itens' = depois
            /\ pedidos' = [pedidos EXCEPT ![pedido.id].preco = preco]
            /\ resp' = Resposta("remover-item", u, id_item_pedido, "ok",
                                [quantidade_itens_pedido |-> Cardinality(p_itens),
                                 pedido |-> [pedido EXCEPT !.preco = preco]])
            /\ UNCHANGED usuarios

\* POST /pedidos/finalizar/{id_pedido}
finalizar_pedido(u, id_pedido) ==
    LET pedido == pedidoPorId(id_pedido) IN
    IF pedido = Nulo
    THEN /\ resp' = Resposta("finalizar", u, id_pedido, "NotFound", 0)
         /\ UNCHANGED db
    ELSE IF semAutorizacao(u, pedido)
    THEN /\ resp' = Resposta("finalizar", u, id_pedido, "Unauthorized", 0)
         /\ UNCHANGED db
    ELSE /\ pedidos' = [pedidos EXCEPT ![id_pedido].status = "FINALIZADO"]
         /\ resp' = Resposta("finalizar", u, id_pedido, "ok",
                             [pedido EXCEPT !.status = "FINALIZADO"])
         /\ UNCHANGED <<usuarios, itens>>

\* GET /pedidos/pedido/{id_pedido}
visualizar_pedido(u, id_pedido) ==
    LET pedido == pedidoPorId(id_pedido) IN
    /\ IF pedido = Nulo
       THEN resp' = Resposta("pedido", u, id_pedido, "NotFound", 0)
       ELSE IF semAutorizacao(u, pedido)
       THEN resp' = Resposta("pedido", u, id_pedido, "Unauthorized", 0)
       ELSE resp' = Resposta("pedido", u, id_pedido, "ok",
                             [quantidade_itens_pedido |->
                                  Cardinality(itensDe(itens, id_pedido)),
                              pedido |-> pedido])
    /\ UNCHANGED db

\* The same query with the filter forgotten.
pedidosDoUsuario_semFiltro(u) == {pedidoPorId(i) : i \in DOMAIN pedidos}

\* session.query(Pedido).filter(Pedido.usuario == usuario.id).all()
pedidosDoUsuario(u) ==
    {pedidoPorId(i) : i \in {j \in DOMAIN pedidos : pedidos[j].usuario = u}}

\* GET /pedidos/pedidos-usuario
listar_pedidos_usuario(u) ==
    /\ resp' = Resposta("pedidos-usuario", u, 0, "ok", pedidosDoUsuario(u))
    /\ UNCHANGED db

\* ------------------------------------------------ one worker, no clock
\* Every handler is an async def with no await in it: in one worker each
\* request runs to completion before the next starts.  u is the Usuario that
\* Depends(verificar_token) hands to the handler.
Next ==
    \/ \E u \in DOMAIN usuarios, d \in 1..MaxUsuarios :
          criar_pedido(u, d) /\ UNCHANGED <<relogio, conc>>
    \/ \E u \in DOMAIN usuarios, p \in 1..MaxPedidos :
          cancelar_pedido(u, p) /\ UNCHANGED <<relogio, conc>>
    \/ \E u \in DOMAIN usuarios, p \in 1..MaxPedidos :
          finalizar_pedido(u, p) /\ UNCHANGED <<relogio, conc>>
    \/ \E u \in DOMAIN usuarios, p \in 1..MaxPedidos :
          visualizar_pedido(u, p) /\ UNCHANGED <<relogio, conc>>
    \/ \E u \in DOMAIN usuarios, p \in 1..MaxPedidos, q \in Quantidades, c \in Precos :
          adicionar_item_pedido(u, p, q, c) /\ UNCHANGED <<relogio, conc>>
    \/ \E u \in DOMAIN usuarios, i \in 1..MaxItens :
          remover_item_pedido(u, i) /\ UNCHANGED <<relogio, conc>>
    \/ \E u \in DOMAIN usuarios : listar_pedidos(u) /\ UNCHANGED <<relogio, conc>>
    \/ \E u \in DOMAIN usuarios :
          listar_pedidos_usuario(u) /\ UNCHANGED <<relogio, conc>>

Spec == Init /\ [][Next]_vars

\* ------------------------------------------------ one worker, with clock
\* Logins, token renewal and order routes called with the tokens handed out.
NextAuth ==
    \/ \E e \in Emails, s \in SenhasDigitadas : login(e, s)
    \/ \E e \in Emails, s \in SenhasDigitadas : login_form(e, s)
    \/ \E k \in carteira : use_refresh_token(k)
    \/ \E k \in carteira, u \in 0..Len(usuarios) :
          comToken(k, "pedidos-usuario", u) /\ (u # 0 => listar_pedidos_usuario(u))
    \/ \E k \in carteira, u \in 0..Len(usuarios) :
          comToken(k, "pedidos", u) /\ (u # 0 => pedidos_raiz(u))
    \/ \E d \in Saltos : Tique(d)

SpecAuth == Init /\ [][NextAuth]_vars

\* ------------------------------------------- several workers, one database
\* Workers are separate processes over the one SQLite file of
\* create_engine("sqlite:///banco.db").  Each statement a handler sends is one
\* step; a SELECT takes no lock that outlives it; the first write of a
\* transaction takes the database's write lock, which COMMIT releases, and
\* rows written are seen by other workers only once committed.

\* The requests some worker is in the middle of.
emCurso(rota) == {w \in DOMAIN reqs : reqs[w].pc # "ocioso" /\ reqs[w].rota = rota}

\* The store before anyone has registered.
InitVazio ==
    /\ usuarios = <<>>
    /\ pedidos = <<>>
    /\ itens = {}
    /\ resp = Resposta("", 0, 0, "", 0)
    /\ now = 0
    /\ tiques = 0
    /\ carteira = {}
    /\ cred = SemCredencial
    /\ reqs = [w \in 1..MaxReqs |-> Ocioso]
    /\ trava = 0

\* POST /auth/criar-conta, first statement: the query by email and the branch
\* on its result.
criar_conta_consulta(w, email, senha, admin) ==
    /\ reqs[w] = Ocioso
    /\ IF usuarioPorEmail(email) # 0
       THEN /\ resp' = Resposta("criar-conta", 0, 0, "DuplicateEmail", email)
            /\ UNCHANGED reqs
       ELSE /\ Len(usuarios) + Cardinality(emCurso("criar-conta")) < MaxUsuarios
            /\ reqs' = [reqs EXCEPT ![w] =
                           [pc |-> "commit", rota |-> "criar-conta",
                            novo_usuario |-> Usuario(email, bcrypt_hash(senha), admin)]]
            /\ UNCHANGED resp
    /\ UNCHANGED <<db, relogio, trava>>

\* POST /auth/criar-conta, session.add(novo_usuario); session.commit(): the
\* INSERT and its COMMIT.
criar_conta_commit(w) ==
    /\ reqs[w].pc = "commit"
    /\ reqs[w].rota = "criar-conta"
    /\ trava = 0
    /\ usuarios' = Append(usuarios, reqs[w].novo_usuario)
    /\ resp' = Resposta("criar-conta", 0, Len(usuarios) + 1, "ok",
                        reqs[w].novo_usuario.email)
    /\ reqs' = [reqs EXCEPT ![w] = Ocioso]
    /\ UNCHANGED <<pedidos, itens, relogio, trava>>

NextContas ==
    \/ \E w \in DOMAIN reqs, e \in Emails, s \in Senhas, a \in BOOLEAN :
          criar_conta_consulta(w, e, s, a)
    \/ \E w \in DOMAIN reqs : criar_conta_commit(w)

SpecContas == InitVazio /\ [][NextContas]_vars

\* POST /pedidos/criar-pedido in a worker: one INSERT and its COMMIT.
criar_pedido_commit(u, dono) ==
    /\ trava = 0
    /\ criar_pedido(u, dono)
    /\ UNCHANGED <<relogio, conc>>

\* POST /pedidos/adicionar-item, first statement: the query of the order and
\* the two checks on it.  The worker keeps the row as loaded.
adicionar_item_consulta(w, u, id_pedido, quantidade, preco_unitario) ==
    LET pedido == pedidoPorId(id_pedido) IN
    /\ reqs[w] = Ocioso
    /\ IF pedido = Nulo
       THEN /\ resp' = Resposta("adicionar-item", u, id_pedido, "NotFound", 0)
            /\ UNCHANGED reqs
       ELSE IF semAutorizacao(u, pedido)
       THEN /\ resp' = Resposta("adicionar-item", u, id_pedido, "Unauthorized", 0)
            /\ UNCHANGED reqs
       ELSE /\ Cardinality(itens) + Cardinality(emCurso("adicionar-item")) < MaxItens
            /\ reqs' = [reqs EXCEPT ![w] =
                           [pc |-> "flush", rota |-> "adicionar-item", usuario |-> u,
                            pedido |-> pedido,
                            item_pedido |-> ItemPedido(0, quantidade, preco_unitario,
                                                       id_pedido),
                            preco |-> pedido.preco]]
            /\ UNCHANGED resp
    /\ UNCHANGED <<db, relogio, trava>>

\* pedido.calcular_preco() reads self.itens: the session first flushes the
\* pending INSERT of item_pedido, which takes the write lock and gives the
\* row its id.
adicionar_item_flush(w) ==
    /\ reqs[w].pc = "flush"
    /\ trava = 0
    /\ trava' = w
    /\ reqs' = [reqs EXCEPT ![w].pc = "soma",
                            ![w].item_pedido.id = Maior({i.id : i \in itens}) + 1]
    /\ UNCHANGED <<db, resp, relogio>>

\* The same flush while another worker holds the write lock and SQLite's busy
\* timeout runs out: the INSERT raises, nothing is committed.
adicionar_item_bloqueado(w) ==
    /\ reqs[w].pc = "flush"
    /\ trava # 0
    /\ resp' = Resposta("adicionar-item", reqs[w].usuario, reqs[w].pedido.id,
                        "InternalError", 0)
    /\ reqs' = [reqs EXCEPT ![w] = Ocioso]
    /\ UNCHANGED <<db, relogio, trava>>

\* pedido.calcular_preco(): the SELECT of the order's items, which sees the
\* committed rows and this transaction's own, and the sum over them.
adicionar_item_soma(w) ==
    /\ reqs[w].pc = "soma"
    /\ reqs' = [reqs EXCEPT ![w].pc = "commit",
                            ![w].preco =
                                calcular_preco(reqs[w].pedido,
                                    itensDe(itens, reqs[w].pedido.id)
                                        \cup {reqs[w].item_pedido})]
    /\ UNCHANGED <<db, resp, relogio, trava>>

\* session.commit(): an UPDATE of pedidos.preco when the attribute differs
\* from the value loaded, then COMMIT.  The response body is item_id and
\* preco_pedido; pedido_lido records the preco the row had when loaded.
adicionar_item_commit(w) ==
    LET r == reqs[w] IN
    /\ r.pc = "commit"
    /\ r.rota = "adicionar-item"
    /\ trava = w
    /\ itens' = itens \cup {r.item_pedido}
    /\ pedidos' = IF r.preco # r.pedido.preco
                  THEN [pedidos EXCEPT ![r.pedido.id].preco = r.preco]
                  ELSE pedidos
    /\ resp' = Resposta("adicionar-item", r.usuario, r.pedido.id, "ok",
                        [item_id |-> r.item_pedido.id, preco_pedido |-> r.preco,
                         pedido_lido |-> r.pedido.preco])
    /\ reqs' = [reqs EXCEPT ![w] = Ocioso]
    /\ trava' = 0
    /\ UNCHANGED <<usuarios, relogio>>

NextItens ==
    \/ \E u \in DOMAIN usuarios, d \in 1..MaxUsuarios : criar_pedido_commit(u, d)
    \/ \E w \in DOMAIN reqs, u \in DOMAIN usuarios, p \in 1..MaxPedidos,
          q \in Quantidades, c \in Precos :
          adicionar_item_consulta(w, u, p, q, c)
    \/ \E w \in DOMAIN reqs : adicionar_item_flush(w)
    \/ \E w \in DOMAIN reqs : adicionar_item_bloqueado(w)
    \/ \E w \in DOMAIN reqs : adicionar_item_soma(w)
    \/ \E w \in DOMAIN reqs : adicionar_item_commit(w)

SpecItens == Init /\ [][NextItens]_vars

\* ================================================================ claims
\* can_access(user, order) of the specification's authorization policy.
can_access(u, o) == usuarios[u].admin \/ u = pedidos[o].usuario

\* C1: every order's total is the sum of quantity * unit price over the line
\* items that currently belong to it.
C1_TotalIgualSomaDosItens ==
    \A o \in DOMAIN pedidos : pedidos[o].preco = Soma(itensDe(itens, o))

\* C2: cancel, finalize, add-item and view on an existing order succeed
\* exactly for an administrator or the order's owner; anyone else gets
\* Unauthorized and the order's status, total and items stay as they were.
C2_AcessoSoDonoOuAdmin ==
    [][(/\ resp'.rota \in {"cancelar", "finalizar", "adicionar-item", "pedido"}
        /\ resp'.alvo \in DOMAIN pedidos)
       => LET u == resp'.usuario
              o == resp'.alvo
          IN /\ (resp'.status = "ok") <=> can_access(u, o)
             /\ ~can_access(u, o)
                => /\ resp'.status = "Unauthorized"
                   /\ pedidos'[o] = pedidos[o]
                   /\ itensDe(itens', o) = itensDe(itens, o)]_vars

\* C2 witness: a customer was refused an item on somebody else's order.
C2_Recusado ==
    /\ resp.rota = "adicionar-item"
    /\ resp.status = "Unauthorized"
    /\ resp.alvo \in DOMAIN pedidos
    /\ \E o \in DOMAIN pedidos : pedidos[o].status = "CANCELADO"

\* C3: remove-item on an existing item is refused exactly when the caller is
\* neither an administrator nor the owner of the item's order; a refused
\* caller leaves the item in place, and the owner is never refused.
C3_RemocaoSoDonoOuAdmin ==
    [][(/\ resp'.rota = "remover-item"
        /\ itemPorId(resp'.alvo) # Nulo)
       => LET u == resp'.usuario
              i == itemPorId(resp'.alvo)
          IN IF can_access(u, i.pedido)
             THEN resp'.status # "Unauthorized"
             ELSE resp'.status = "Unauthorized" /\ i \in itens']_vars

\* C4: remove-item ends in NotFound (nothing changed) when the item does not
\* exist, in Unauthorized, or else succeeds: the item is gone and the answer
\* carries the item's own order and the number of items left in it.
C4_ResultadosDaRemocao ==
    [][resp'.rota = "remover-item"
       => LET i == itemPorId(resp'.alvo)
          IN IF i = Nulo
             THEN resp'.status = "NotFound" /\ UNCHANGED db
             ELSE \/ resp'.status = "Unauthorized"
                  \/ /\ resp'.status = "ok"
                     /\ i \notin itens'
                     /\ resp'.corpo.pedido.id = i.pedido
                     /\ resp'.corpo.quantidade_itens_pedido
                           = Cardinality(itensDe(itens', i.pedido))]_vars

\* C8: the owner of a new order is the authenticated user who created it.
C8_DonoEhQuemCriou ==
    [][(resp'.rota = "criar-pedido" /\ Len(pedidos') = Len(pedidos) + 1)
       => pedidos'[Len(pedidos')].usuario = resp'.usuario]_vars

\* C9: list-all refuses a non-administrator and returns nothing; for an
\* administrator it returns every stored order; list-mine returns exactly the
\* caller's orders.
C9_Listagens ==
    /\ resp.rota = "listar"
       => IF usuarios[resp.usuario].admin
          THEN /\ resp.status = "ok"
               /\ {r.id : r \in resp.corpo} = DOMAIN pedidos
               /\ \A r \in resp.corpo :
                     /\ r.usuario = pedidos[r.id].usuario
                     /\ r.status = pedidos[r.id].status
                     /\ r.preco = pedidos[r.id].preco
          ELSE resp.status = "Unauthorized" /\ resp.corpo = {}
    /\ resp.rota = "pedidos-usuario"
       => /\ resp.status = "ok"
          /\ {r.id : r \in resp.corpo}
                = {o \in DOMAIN pedidos : pedidos[o].usuario = resp.usuario}
          /\ \A r \in resp.corpo :
                /\ r.usuario = pedidos[r.id].usuario
                /\ r.status = pedidos[r.id].status
                /\ r.preco = pedidos[r.id].preco

\* C9 witness: list-mine answered with one order while another user's order
\* is stored.
C9_MinhaLista ==
    /\ resp.rota = "pedidos-usuario"
    /\ Cardinality(resp.corpo) = 1
    /\ \E o \in DOMAIN pedidos : pedidos[o].usuario # resp.usuario

\* The lifetime login gives to the token of each response field.
DuracaoDe(campo) ==
    IF campo = "access_token" THEN ACCESS_TOKEN_EXPIRE_MINUTES ELSE DuracaoRefresh

\* C7: a token issued at time t with lifetime L carries its user's id and the
\* expiration t + L; it is accepted for that user at every time before t + L
\* and refused as Expired from t + L on, for access and refresh tokens alike.
C7_ValidadeDoToken ==
    \A k \in carteira :
        LET fim == k.emitido + DuracaoDe(k.campo)
            v == verificar_token(k.jwt)
        IN /\ k.jwt.exp = fim
           /\ int(k.jwt.sub) = k.para
           /\ now < fim => v.erro = "" /\ v.usuario = k.para
           /\ now >= fim => v.erro = "Expired"

\* C7 witness: a refresh token was refused as Expired at the very minute of
\* its expiration, seven days after it was issued.
C7_RefreshExpirado ==
    /\ resp.rota = "refresh"
    /\ resp.status = "Expired"
    /\ cred.campo = "refresh_token"
    /\ now = cred.emitido + DuracaoRefresh

\* C10: no order route accepts a refresh token as its credential.
C10_RefreshSoRenova ==
    ~(/\ cred.campo = "refresh_token"
      /\ resp.rota \in {"pedidos", "pedidos-usuario"}
      /\ resp.status = "ok")

\* C5: at most one user row per email in every reachable state, concurrent
\* registrations included; a registration of a stored email answers
\* DuplicateEmail and leaves the users as they were.
C5_EmailUnico ==
    [][/\ \A u, v \in DOMAIN usuarios' :
             usuarios'[u].email = usuarios'[v].email => u = v
       /\ (resp'.rota = "criar-conta" /\ resp'.status = "DuplicateEmail")
             => usuarios' = usuarios]_vars

\* C6: once no add-item request on an order is still in flight, the order's
\* stored total is the sum of quantity * unit price over all of its items,
\* however the requests interleaved.
C6_SemAtualizacaoPerdida ==
    \A o \in DOMAIN pedidos :
        (\A w \in emCurso("adicionar-item") : reqs[w].pedido.id # o)
            => pedidos[o].preco = Soma(itensDe(itens, o))

\* C6 witness: a request that loaded the order before another request's item
\* was committed (it read total 0) has committed second, and the order holds
\* both items.
C6_DoisCommits ==
    /\ resp.rota = "adicionar-item"
    /\ resp.status = "ok"
    /\ resp.corpo.pedido_lido = 0
    /\ resp.corpo.item_id = 2
    /\ Cardinality(itensDe(itens, resp.alvo)) = 2
    /\ \A w \in DOMAIN reqs : reqs[w] = Ocioso

\* The three values an order's status may take.
StatusPedido == {"PENDENTE", "CANCELADO", "FINALIZADO"}

C12_SoOAlvoMuda ==
    [][/\ (resp'.rota \in {"cancelar", "finalizar"} /\ resp'.status = "ok")
             => /\ usuarios' = usuarios
                /\ itens' = itens
                /\ DOMAIN pedidos' = DOMAIN pedidos
                /\ \A p \in DOMAIN pedidos :
                      /\ pedidos'[p].usuario = pedidos[p].usuario
                      /\ pedidos'[p].preco = pedidos[p].preco
                      /\ p # resp'.alvo => pedidos'[p].status = pedidos[p].status
       /\ (resp'.rota = "adicionar-item" /\ resp'.status = "ok")
             => /\ usuarios' = usuarios
                /\ DOMAIN pedidos' = DOMAIN pedidos
                /\ \A p \in DOMAIN pedidos :
                      /\ pedidos'[p].usuario = pedidos[p].usuario
                      /\ pedidos'[p].status = pedidos[p].status
                      /\ p # resp'.alvo
                            => /\ pedidos'[p].preco = pedidos[p].preco
                               /\ itensDe(itens', p) = itensDe(itens, p)
       /\ resp'.status \in {"NotFound", "Unauthorized"}
             => /\ usuarios' = usuarios
                /\ pedidos' = pedidos
                /\ itens' = itens]_vars

\* C12 witness: a cancel has succeeded on an order that holds items while
\* another order is stored.
C12_CancelouComItens ==
    /\ resp.rota = "cancelar"
    /\ resp.status = "ok"
    /\ itensDe(itens, resp.alvo) # {}
    /\ Len(pedidos) = 2
====
